---- MODULE Spec2Model ----
(***************************************************************************)
(* IRENO Smart Assistant, frontend state layer: the reducer of            *)
(* AppContext.jsx, its localStorage persistence (saveStateToStorage,       *)
(* initializeStateFromStorage), and the UI handlers that dispatch to it    *)
(* (ConversationSidebar, WelcomeScreen, ChatInput, AppHeader,              *)
(* SettingsModal, App).                                                    *)
(*                                                                         *)
(* A step is one event handler of a page run to completion together with   *)
(* the render and the persistence effect that React runs for the state it  *)
(* produced.  The variables of a page are those of the tab that takes the  *)
(* step; a second tab of the same origin, when there is one, is kept in    *)
(* otherTab and shares localStorage, the browser and the clock.            *)
(***************************************************************************)
EXTENDS Integers, Sequences, FiniteSets, TLC

VARIABLES
    state,          \* the value held by useReducer (AppProvider)
    localStorage,   \* the origin's localStorage: key -> stored string
    browser,        \* the environment of localStorage: enabled, quota, error name
    phase,          \* "unloaded" | "hydrated" | "running": position of the page
    requests,       \* chat requests in flight (closures of sendMessageToBackend)
    timers,         \* pending setTimeout callbacks of handleQuickPrompt
    now,            \* Date.now()
    sentLog,        \* history: id -> messages passed to AddMessage(id, .) since the
                    \* id was created with an empty message list
    lastAction,     \* history: the step that produced the current state, when it
                    \* is one of Recorded
    startupProbe,   \* history: "none" | "ok" | "failed", the outcome of the
                    \* availability probe of the hydration of this page
    exported,       \* what the handler that ran last handed to the user: nothing,
                    \* an alert, or a downloaded document and its alert
    otherTab        \* the page of the second tab of the origin: its state,
                    \* phase, requests, timers and history

vars == <<state, localStorage, browser, phase, requests, timers, now, sentLog,
          lastAction, startupProbe, exported, otherTab>>

---------------------------------------------------------------------------
(* Bounds of the model *)

\* Date.now() ranges over 0..MaxTime
MaxTime == 1
\* New conversations are created while fewer than this many exist
MaxConversations == 2
\* A message is submitted while its conversation has room for it and the reply
MaxMessages == 2
\* The first MaxPrompt quick-start prompts are clicked
MaxPrompt == 1
\* The smaller of the two storage quotas the browser may impose
TightQuota == 3
\* A quick-start prompt is clicked while fewer than this many of its timers run
MaxTimers == 1

---------------------------------------------------------------------------
(* JavaScript values *)

\* null
Null == [type |-> "null"]

\* new Date() at millisecond t
NewDate(t) == [kind |-> "Date", ms |-> t]

\* Date.prototype.toJSON: the ISO-8601 string of the instant.  A value that is
\* already a string is written as it is.
DateToJSON(d) == IF d.kind = "Date" THEN [kind |-> "string", ms |-> d.ms] ELSE d

\* String.prototype.trim on the inputs the model types
Trim(s) == IF s = " " THEN "" ELSE s

\* String.prototype.charAt(0).toUpperCase() on the user names the model types
Avatar(username) == IF username = "alice" THEN "A" ELSE "U"

---------------------------------------------------------------------------
(* localStorage *)

STORAGE_KEY == "ireno-chat-state"
LEGACY_KEY == "ireno-theme"
Keys == {STORAGE_KEY, LEGACY_KEY}

\* getItem's null: no value under the key
Absent == [kind |-> "absent"]
\* a stored string that is not JSON text
Text(t) == [kind |-> "text", text |-> t]
\* a stored string that is the JSON text of value v
JSONText(v) == [kind |-> "json", value |-> v]

\* storage units taken by the JSON text of an object: one for the object, one
\* per conversation, one per message
RECURSIVE MessageCount(_)
MessageCount(convs) ==
    IF convs = <<>> THEN 0
    ELSE Len(Head(convs).messages) + MessageCount(Tail(convs))

ObjectSize(fields) ==
    IF "conversations" \in DOMAIN fields
    THEN 1 + Len(fields.conversations) + MessageCount(fields.conversations)
    ELSE 1

\* storage units taken by a stored string
Size(v) ==
    CASE v.kind = "absent" -> 0
      [] v.kind = "text" -> 1
      [] v.kind = "json" ->
            IF v.value.type = "object" THEN ObjectSize(v.value.fields) ELSE 1

Used(ls) == Size(ls[STORAGE_KEY]) + Size(ls[LEGACY_KEY])

\* setItem(key, v) succeeds when the value fits in place of the old one,
\* and throws the browser's quota error otherwise
Fits(ls, key, v) == Used(ls) - Size(ls[key]) + Size(v) <= browser.quota

\* isLocalStorageAvailable: setItem('__localStorage_test__', 'test') then
\* removeItem; any throw gives false
isLocalStorageAvailable(ls) == browser.enabled /\ Used(ls) + 1 <= browser.quota

---------------------------------------------------------------------------
(* State codec: JSON.stringify / JSON.parse *)

MessageToJSON(m) == [m EXCEPT !.timestamp = DateToJSON(@)]

ConversationToJSON(c) ==
    [c EXCEPT !.createdAt = DateToJSON(@),
              !.updatedAt = DateToJSON(@),
              !.messages = [i \in DOMAIN @ |-> MessageToJSON(@[i])]]

\* a save that leaves out the two catalogs, which the next load takes from
\* the defaults anyway
StateToJSON_WithoutCatalogs(s) ==
    [k \in DOMAIN s \ {"userRoles", "quickPrompts"} |->
        IF k = "conversations"
        THEN [i \in DOMAIN s[k] |-> ConversationToJSON(s[k][i])]
        ELSE IF k = "activeConversation" /\ s[k] # Null
        THEN ConversationToJSON(s[k])
        ELSE s[k]]

\* the object JSON.stringify writes for a state: every own field, Dates as
\* ISO strings
StateToJSON(s) ==
    [k \in DOMAIN s |->
        IF k = "conversations"
        THEN [i \in DOMAIN s[k] |-> ConversationToJSON(s[k][i])]
        ELSE IF k = "activeConversation" /\ s[k] # Null
        THEN ConversationToJSON(s[k])
        ELSE s[k]]

JSONstringify(s) == JSONText([type |-> "object", fields |-> StateToJSON(s)])

\* JSON.parse throws a SyntaxError on a string that is not JSON text
ParseThrows(stored) == stored.kind # "json"
JSONparse(stored) == stored.value

\* typeof v
TypeOf(v) ==
    IF v.type \in {"object", "array", "null"} THEN "object" ELSE v.type

\* the own enumerable properties an object spread {...v} copies: an object's
\* fields, an array's elements under their indices "0", "1"
ArrayKey(i) == IF i = 1 THEN "0" ELSE IF i = 2 THEN "1" ELSE "2"
SpreadFields(v) ==
    IF v.type = "object" THEN v.fields
    ELSE [k \in {ArrayKey(i) : i \in DOMAIN v.items} |->
            v.items[CHOOSE i \in DOMAIN v.items : ArrayKey(i) = k]]

---------------------------------------------------------------------------
(* Initial state (AppContext.jsx initialState) *)

userRoles == <<"field_technician", "command_center", "senior_leadership">>

quickPrompts ==
    <<"System Status Check", "Performance Report", "Active Alerts",
      "Maintenance Schedule", "Efficiency Analysis", "Compliance Report",
      "Fault Detection", "Grid Load">>

initialState ==
    [currentUser |-> Null,
     conversations |-> <<>>,
     activeConversation |-> Null,
     isTyping |-> FALSE,
     theme |-> "light",
     sidebarOpen |-> TRUE,
     userRoles |-> userRoles,
     quickPrompts |-> quickPrompts]

---------------------------------------------------------------------------
(* Persistence *)

\* a save that reads the stored blob first and keeps the conversations it
\* finds there and the state does not have
saveStateToStorage_KeepsStoredConversations(ls, s) ==
    IF ~isLocalStorageAvailable(ls) THEN ls
    ELSE LET old == ls[STORAGE_KEY]
             ids == {s.conversations[i].id : i \in DOMAIN s.conversations}
             stored ==
                 IF old.kind = "json" /\ old.value.type = "object"
                    /\ "conversations" \in DOMAIN old.value.fields
                 THEN SelectSeq(old.value.fields.conversations,
                                LAMBDA c : c.id \notin ids)
                 ELSE <<>>
             stateToStore ==
                 JSONText([type |-> "object",
                           fields |-> [StateToJSON(s) EXCEPT
                                          !.conversations = @ \o stored]])
         IN IF Fits(ls, STORAGE_KEY, stateToStore)
            THEN [ls EXCEPT ![STORAGE_KEY] = stateToStore]
            ELSE IF browser.quotaErrorName = "QuotaExceededError"
            THEN [ls EXCEPT ![LEGACY_KEY] = Absent]
            ELSE ls

\* saveStateToStorage(state): the localStorage it leaves.  The retry in the
\* catch block names stateToStore, a const of the try block that is out of
\* scope there: evaluating it throws a ReferenceError after the removeItem and
\* before setItem is called, and the inner catch swallows it.
saveStateToStorage(ls, s) ==
    IF ~isLocalStorageAvailable(ls) THEN ls
    ELSE LET stateToStore == JSONstringify(s) IN
         IF Fits(ls, STORAGE_KEY, stateToStore)
         THEN [ls EXCEPT ![STORAGE_KEY] = stateToStore]
         ELSE IF browser.quotaErrorName = "QuotaExceededError"
         THEN [ls EXCEPT ![LEGACY_KEY] = Absent]
         ELSE ls

\* saveStateToStorage whose retry stands outside a try block: the
\* ReferenceError of the retry reaches the caller
saveStateToStorageThrows_RetryUncaught(ls, s) ==
    /\ isLocalStorageAvailable(ls)
    /\ ~Fits(ls, STORAGE_KEY, JSONstringify(s))
    /\ browser.quotaErrorName = "QuotaExceededError"

\* whether saveStateToStorage(state) throws to its caller.  The probe has its
\* own try/catch and makes the function return; an error of stringify or
\* setItem is caught by the catch block; the catch block itself only logs,
\* reads error.name and runs the retry inside an inner try whose catch takes
\* the ReferenceError (or the second quota error) and logs it.
saveStateToStorageThrows(ls, s) ==
    IF ~isLocalStorageAvailable(ls) THEN FALSE
    ELSE IF Fits(ls, STORAGE_KEY, JSONstringify(s)) THEN FALSE
    ELSE LET retryThrows == browser.quotaErrorName = "QuotaExceededError"
             retryCaught == TRUE
         IN retryThrows /\ ~retryCaught

\* the merge without the two overriding properties: persisted catalogs win
hydratedState_PersistedWins(defaultState, parsedState) ==
    LET p == SpreadFields(parsedState) IN
    [k \in DOMAIN defaultState \cup DOMAIN p |->
        IF k \in DOMAIN p THEN p[k] ELSE defaultState[k]]

\* the merge with the spreads in the other order: defaults over persisted
hydratedState_DefaultsWin(defaultState, parsedState) ==
    LET p == SpreadFields(parsedState) IN
    [k \in DOMAIN defaultState \cup DOMAIN p |->
        IF k \in DOMAIN defaultState THEN defaultState[k] ELSE p[k]]

\* a merge that takes from the persisted value only the fields the default
\* state has
hydratedState_KnownFieldsOnly(defaultState, parsedState) ==
    LET p == SpreadFields(parsedState) IN
    [k \in DOMAIN defaultState |->
        IF k \in {"userRoles", "quickPrompts"} THEN defaultState[k]
        ELSE IF k \in DOMAIN p THEN p[k]
        ELSE defaultState[k]]

\* the merge of initializeStateFromStorage:
\* {...defaultState, ...parsedState, userRoles: ..., quickPrompts: ...}
hydratedState(defaultState, parsedState) ==
    LET p == SpreadFields(parsedState) IN
    [k \in DOMAIN defaultState \cup DOMAIN p |->
        IF k \in {"userRoles", "quickPrompts"} THEN defaultState[k]
        ELSE IF k \in DOMAIN p THEN p[k]
        ELSE defaultState[k]]

\* a string that is truthy in `if (storedState)`: present and not empty
Truthy(stored) == stored.kind # "absent" /\ ~(stored.kind = "text" /\ stored.text = "")

\* initializeStateFromStorage that clears the state key when the probe fails
initializeStateFromStorage_ClearsWhenUnavailable(ls, defaultState) ==
    IF ~isLocalStorageAvailable(ls)
    THEN [state |-> defaultState, localStorage |-> [ls EXCEPT ![STORAGE_KEY] = Absent]]
    ELSE LET storedState == ls[STORAGE_KEY] IN
         IF ~Truthy(storedState)
         THEN [state |-> defaultState, localStorage |-> ls]
         ELSE IF ParseThrows(storedState)
                 \/ TypeOf(JSONparse(storedState)) # "object"
                 \/ JSONparse(storedState) = Null
         THEN [state |-> defaultState,
               localStorage |-> [ls EXCEPT ![STORAGE_KEY] = Absent]]
         ELSE [state |-> hydratedState(defaultState, JSONparse(storedState)),
               localStorage |-> ls]

\* initializeStateFromStorage(defaultState): the state it returns and the
\* localStorage it leaves
initializeStateFromStorage(ls, defaultState) ==
    IF ~isLocalStorageAvailable(ls)
    THEN [state |-> defaultState, localStorage |-> ls]
    ELSE LET storedState == ls[STORAGE_KEY] IN
         IF ~Truthy(storedState)
         THEN [state |-> defaultState, localStorage |-> ls]
         ELSE IF ParseThrows(storedState)
                 \/ TypeOf(JSONparse(storedState)) # "object"
                 \/ JSONparse(storedState) = Null
         THEN [state |-> defaultState,
               localStorage |-> [ls EXCEPT ![STORAGE_KEY] = Absent]]
         ELSE [state |-> hydratedState(defaultState, JSONparse(storedState)),
               localStorage |-> ls]

---------------------------------------------------------------------------
(* Reducer (appReducer), one operator per action type *)

\* a SET_USER that starts the user's session without conversations
SET_USER_StartsFresh(s, payload) ==
    [s EXCEPT !.currentUser = payload,
              !.conversations = <<>>,
              !.activeConversation = Null]

SET_USER(s, payload) == [s EXCEPT !.currentUser = payload]

\* LOGOUT_USER that goes back to the initial state
LOGOUT_USER_ResetsAll(s) == initialState

LOGOUT_USER(s) ==
    [s EXCEPT !.currentUser = Null,
              !.conversations = <<>>,
              !.activeConversation = Null]

SET_THEME(s, payload) == [s EXCEPT !.theme = payload]

TOGGLE_SIDEBAR(s) == [s EXCEPT !.sidebarOpen = ~s.sidebarOpen]

\* ADD_CONVERSATION that puts the conversation at the end of the collection
ADD_CONVERSATION_Appends(s, payload) ==
    [s EXCEPT !.conversations = Append(s.conversations, payload),
              !.activeConversation = payload]

ADD_CONVERSATION(s, payload) ==
    [s EXCEPT !.conversations = <<payload>> \o s.conversations,
              !.activeConversation = payload]

SET_ACTIVE_CONVERSATION(s, payload) == [s EXCEPT !.activeConversation = payload]

\* state.activeConversation?.id === id
ActiveHasId(s, id) == s.activeConversation # Null /\ s.activeConversation.id = id

\* an ADD_MESSAGE that opens a conversation for a message whose conversation
\* is not in the collection
ADD_MESSAGE_CreatesMissing(s, conversationId, message) ==
    LET updatedConversations ==
            [i \in DOMAIN s.conversations |->
                IF s.conversations[i].id = conversationId
                THEN [s.conversations[i] EXCEPT !.messages = Append(@, message)]
                ELSE s.conversations[i]]
        updatedActiveConv ==
            IF ActiveHasId(s, conversationId)
            THEN [s.activeConversation EXCEPT !.messages = Append(@, message)]
            ELSE s.activeConversation
        missing ==
            [id |-> conversationId, title |-> "New Conversation",
             messages |-> <<message>>, createdAt |-> message.timestamp,
             updatedAt |-> message.timestamp, pinned |-> FALSE]
    IN [s EXCEPT !.conversations =
                     IF \E i \in DOMAIN s.conversations :
                            s.conversations[i].id = conversationId
                     THEN updatedConversations
                     ELSE <<missing>> \o s.conversations,
                 !.activeConversation = updatedActiveConv]

ADD_MESSAGE(s, conversationId, message) ==
    LET updatedConversations ==
            [i \in DOMAIN s.conversations |->
                IF s.conversations[i].id = conversationId
                THEN [s.conversations[i] EXCEPT !.messages = Append(@, message)]
                ELSE s.conversations[i]]
        updatedActiveConv ==
            IF ActiveHasId(s, conversationId)
            THEN [s.activeConversation EXCEPT !.messages = Append(@, message)]
            ELSE s.activeConversation
    IN [s EXCEPT !.conversations = updatedConversations,
                 !.activeConversation = updatedActiveConv]

SET_TYPING(s, payload) == [s EXCEPT !.isTyping = payload]

\* conversations.filter(conv => conv.id !== id)
RECURSIVE FilterOut(_, _)
FilterOut(convs, id) ==
    IF convs = <<>> THEN <<>>
    ELSE IF Head(convs).id = id THEN FilterOut(Tail(convs), id)
    ELSE <<Head(convs)>> \o FilterOut(Tail(convs), id)

\* DELETE_CONVERSATION that leaves the active conversation as it is
DELETE_CONVERSATION_KeepsActive(s, payload) ==
    [s EXCEPT !.conversations = FilterOut(s.conversations, payload)]

\* DELETE_CONVERSATION that clears the active conversation whatever its id
DELETE_CONVERSATION_AlwaysClears(s, payload) ==
    [s EXCEPT !.conversations = FilterOut(s.conversations, payload),
              !.activeConversation = Null]

\* DELETE_CONVERSATION that also drops the newest conversation
DELETE_CONVERSATION_DropsNewest(s, payload) ==
    [s EXCEPT !.conversations =
                  IF s.conversations = <<>> THEN <<>>
                  ELSE FilterOut(Tail(s.conversations), payload),
              !.activeConversation =
                  IF ActiveHasId(s, payload) THEN Null ELSE s.activeConversation]

DELETE_CONVERSATION(s, payload) ==
    [s EXCEPT !.conversations = FilterOut(s.conversations, payload),
              !.activeConversation =
                  IF ActiveHasId(s, payload) THEN Null ELSE s.activeConversation]

\* { ...conv, ...updates }
ShallowMerge(conv, updates) ==
    [k \in DOMAIN conv \cup DOMAIN updates |->
        IF k \in DOMAIN updates THEN updates[k] ELSE conv[k]]

\* an UPDATE_CONVERSATION that keeps the active copy in step with the
\* collection, as ADD_MESSAGE does
UPDATE_CONVERSATION_UpdatesActive(s, id, updates) ==
    [s EXCEPT !.conversations =
                  [i \in DOMAIN s.conversations |->
                      IF s.conversations[i].id = id
                      THEN ShallowMerge(s.conversations[i], updates)
                      ELSE s.conversations[i]],
              !.activeConversation =
                  IF ActiveHasId(s, id)
                  THEN ShallowMerge(s.activeConversation, updates)
                  ELSE s.activeConversation]

UPDATE_CONVERSATION(s, id, updates) ==
    [s EXCEPT !.conversations =
        [i \in DOMAIN s.conversations |->
            IF s.conversations[i].id = id
            THEN ShallowMerge(s.conversations[i], updates)
            ELSE s.conversations[i]]]

CLEAR_ALL_CONVERSATIONS(s) ==
    [s EXCEPT !.conversations = <<>>, !.activeConversation = Null]

---------------------------------------------------------------------------
(* Inputs of the model *)

\* what the login form submits: a user name and one of the role options
FormData == {[username |-> "alice", userRole |-> "field_technician"]}

\* what is typed into the chat box
Inputs == {"hi", " "}

\* the updates of actions.updateConversation(id, updates): no field, fields a
\* conversation has, its messages, its id, and a field it does not have
UpdateInputs ==
    {<<>>,
     [title |-> "Renamed"],
     [pinned |-> TRUE],
     [title |-> "Renamed", pinned |-> TRUE],
     [messages |-> <<>>],
     [id |-> MaxTime + 1],
     [archived |-> TRUE]}

\* how a chat request settles: a 2xx response with a body, a rejected fetch,
\* a non-2xx response
Outcomes == {"ok", "network_error", "http_error"}

\* the quota that never fills within the bounds
AmpleQuota == 4 + MaxConversations * (2 + 2 * MaxMessages)

\* objects written under the state key by hand or by another version of the
\* page: a partial state, states whose catalogs were replaced, and a state
\* with a field this version does not have
TamperedInputs ==
    {JSONText([type |-> "object", fields |-> [theme |-> "dark"]]),
     JSONText([type |-> "object",
               fields |-> [theme |-> "dark", userRoles |-> <<"admin">>,
                           quickPrompts |-> <<>>]]),
     JSONText([type |-> "object",
               fields |-> [userRoles |-> <<>>, sidebarOpen |-> FALSE]]),
     JSONText([type |-> "object",
               fields |-> [theme |-> "dark", fontSize |-> "large"]])}

\* what an earlier session, another script of the origin or the user may have
\* left under the state key
StoredInputs ==
    {Absent, Text(""), Text("not json"),
     JSONText([type |-> "number", n |-> 42]),
     JSONText([type |-> "string", s |-> "light"]),
     JSONText([type |-> "boolean", b |-> TRUE]),
     JSONText(Null),
     JSONText([type |-> "array", items |-> <<>>]),
     JSONText([type |-> "array", items |-> <<[type |-> "number", n |-> 1]>>])}
    \cup TamperedInputs

Browsers ==
    [enabled : BOOLEAN,
     quota : {TightQuota, AmpleQuota},
     quotaErrorName : {"QuotaExceededError", "NS_ERROR_DOM_QUOTA_REACHED"}]

EmptyLog == [c \in {} |-> <<>>]

\* the last handler was no export
NoExport == [kind |-> "none"]

\* the steps whose trace the state itself does not keep
Recorded ==
    {"handleDelete", "handleLogout", "handleClearAllConversations",
     "RequestSettles", "QuickPromptTimeout"}

\* a reload right after a logout is kept too: the page that hydrates knows
\* nothing of the page before it
Record(name) ==
    lastAction' =
        IF name \in Recorded THEN name
        ELSE IF name = "Unload" /\ lastAction = "handleLogout"
             THEN "handleLogout, Unload"
        ELSE IF name = "Hydrate" /\ lastAction = "handleLogout, Unload"
             THEN "handleLogout, Unload, Hydrate"
        ELSE "other"

---------------------------------------------------------------------------
(* Messages and conversations built by the handlers *)

Content(text, arg) == [text |-> text, arg |-> arg]

\* error.message of the error the catch block of sendMessageToBackend receives
\* (the text itself is not modelled)
ErrorMessage(outcome) == "error.message"

FallbackText == "Sorry, I'm having trouble connecting to the server right now."

Message(id, role, content, t) ==
    [id |-> id, role |-> role, content |-> content, timestamp |-> NewDate(t)]

NewConversation(id, title, messages, t) ==
    [id |-> id, title |-> title, messages |-> messages,
     createdAt |-> NewDate(t), updatedAt |-> NewDate(t), pinned |-> FALSE]

\* AppContent renders MainApp only for a logged-in user
LoggedIn == state.currentUser # Null

Running == phase = "running"

\* the position of the page after the persistence effect has run for state s:
\* an error thrown by an effect, with no error boundary in the tree, makes
\* React unmount the whole application
AfterEffect(ls, s) ==
    IF saveStateToStorageThrows(ls, s) THEN "crashed" ELSE "running"

\* a persistence effect that saves the state of the render before the dispatch
Commit_SavesPreviousRender(s) ==
    /\ state' = s
    /\ localStorage' = saveStateToStorage(localStorage, state)
    /\ phase' = AfterEffect(localStorage, state)
    /\ exported' = NoExport
    /\ UNCHANGED <<browser, startupProbe, otherTab>>

\* The render that follows the dispatches of a handler, and the persistence
\* effect useEffect(() => saveStateToStorage(state), [state]) that follows the
\* render
Commit(s) ==
    /\ state' = s
    /\ localStorage' = saveStateToStorage(localStorage, s)
    /\ phase' = AfterEffect(localStorage, s)
    /\ exported' = NoExport
    /\ UNCHANGED <<browser, startupProbe, otherTab>>

\* sentLog after AddMessage(id, m)
Logged(log, id, m) ==
    IF id \in DOMAIN log THEN [log EXCEPT ![id] = Append(@, m)] ELSE log

\* a sequence without its i-th element
RemoveAt(seq, i) == SubSeq(seq, 1, i - 1) \o SubSeq(seq, i + 1, Len(seq))

---------------------------------------------------------------------------
(* Page life cycle *)

\* a page that is not loaded
ClosedPage ==
    [state |-> initialState, phase |-> "unloaded", requests |-> <<>>,
     timers |-> <<>>, sentLog |-> EmptyLog, lastAction |-> "other",
     startupProbe |-> "none", exported |-> NoExport]

\* every storage environment and every content of the state key
InitAny ==
    /\ state = initialState
    /\ localStorage \in [Keys -> StoredInputs \cup {Text("dark")}]
    /\ localStorage[STORAGE_KEY] \in StoredInputs
    /\ localStorage[LEGACY_KEY] \in {Absent, Text("dark")}
    /\ browser \in Browsers
    /\ phase = "unloaded"
    /\ requests = <<>>
    /\ timers = <<>>
    /\ now = 0
    /\ sentLog = EmptyLog
    /\ lastAction = "other"
    /\ startupProbe = "none"
    /\ exported = NoExport
    /\ otherTab = ClosedPage

\* a first visit: empty, working storage with room
Init ==
    /\ InitAny
    /\ localStorage = [k \in Keys |-> Absent]
    /\ browser = [enabled |-> TRUE, quota |-> AmpleQuota,
                  quotaErrorName |-> "QuotaExceededError"]

\* useReducer(appReducer, initialState, initializeStateFromStorage)
Hydrate ==
    /\ phase = "unloaded"
    /\ LET r == initializeStateFromStorage(localStorage, initialState) IN
        /\ state' = r.state
        /\ localStorage' = r.localStorage
    /\ phase' = "hydrated"
    /\ startupProbe' = IF isLocalStorageAvailable(localStorage) THEN "ok" ELSE "failed"
    /\ Record("Hydrate")
    /\ UNCHANGED <<browser, requests, timers, now, sentLog, exported, otherTab>>

\* the persistence effect of the first render
Mount ==
    /\ phase = "hydrated"
    /\ localStorage' = saveStateToStorage(localStorage, state)
    /\ phase' = AfterEffect(localStorage, state)
    /\ Record("Mount")
    /\ UNCHANGED <<state, browser, requests, timers, now, sentLog, startupProbe,
                   exported, otherTab>>

\* the page is closed or reloaded: its state, requests and timers are gone
Unload ==
    /\ Running
    /\ phase' = "unloaded"
    /\ state' = initialState
    /\ requests' = <<>>
    /\ timers' = <<>>
    /\ sentLog' = EmptyLog
    /\ startupProbe' = "none"
    /\ exported' = NoExport
    /\ Record("Unload")
    /\ UNCHANGED <<localStorage, browser, now, otherTab>>

\* other data of the origin is stored or removed (another page or script of
\* the origin, the user clearing site data): the room left for the keys of
\* this application changes
OtherDataChanges ==
    /\ \E q \in {TightQuota, AmpleQuota} \ {browser.quota} :
          browser' = [browser EXCEPT !.quota = q]
    /\ UNCHANGED <<state, localStorage, phase, requests, timers, now, sentLog,
                   lastAction, startupProbe, exported, otherTab>>

\* the other tab of the origin is the one that takes the next steps: each tab
\* has its own page (state, requests, timers), and both use the same
\* localStorage
SwitchTab ==
    /\ otherTab' = [state |-> state, phase |-> phase, requests |-> requests,
                    timers |-> timers, sentLog |-> sentLog,
                    lastAction |-> lastAction, startupProbe |-> startupProbe,
                    exported |-> exported]
    /\ state' = otherTab.state
    /\ phase' = otherTab.phase
    /\ requests' = otherTab.requests
    /\ timers' = otherTab.timers
    /\ sentLog' = otherTab.sentLog
    /\ lastAction' = otherTab.lastAction
    /\ startupProbe' = otherTab.startupProbe
    /\ exported' = otherTab.exported
    /\ UNCHANGED <<localStorage, browser, now>>

\* a millisecond passes
Tick ==
    /\ now < MaxTime
    /\ now' = now + 1
    /\ Record("Tick")
    /\ UNCHANGED <<state, localStorage, browser, phase, requests, timers, sentLog,
                   startupProbe, exported, otherTab>>

---------------------------------------------------------------------------
(* Event handlers *)

\* the user object LoginPage builds from its form
LoginUser(s, f) ==
    [username |-> f.username,
     role |-> CHOOSE r \in {s.userRoles[i] : i \in DOMAIN s.userRoles} : r = f.userRole,
     avatar |-> Avatar(f.username)]

\* App.jsx handleLogin, called by LoginPage with the user it builds
handleLogin(f) ==
    /\ Running /\ ~LoggedIn
    /\ Commit(SET_USER(state, LoginUser(state, f)))
    /\ Record("handleLogin")
    /\ UNCHANGED <<requests, timers, now, sentLog>>

\* AppHeader handleLogout
handleLogout ==
    /\ Running /\ LoggedIn
    /\ Commit(LOGOUT_USER(state))
    /\ sentLog' = EmptyLog
    /\ Record("handleLogout")
    /\ UNCHANGED <<requests, timers, now>>

\* AppHeader handleThemeToggle
handleThemeToggle ==
    /\ Running /\ LoggedIn
    /\ Commit(SET_THEME(state, IF state.theme = "light" THEN "dark" ELSE "light"))
    /\ Record("handleThemeToggle")
    /\ UNCHANGED <<requests, timers, now, sentLog>>

\* AppHeader sidebar button, SettingsModal checkbox: actions.toggleSidebar
toggleSidebar ==
    /\ Running /\ LoggedIn
    /\ Commit(TOGGLE_SIDEBAR(state))
    /\ Record("toggleSidebar")
    /\ UNCHANGED <<requests, timers, now, sentLog>>

\* ConversationSidebar handleNewChat
handleNewChat ==
    /\ Running /\ LoggedIn /\ state.sidebarOpen
    /\ Len(state.conversations) < MaxConversations
    /\ Commit(ADD_CONVERSATION(state, NewConversation(now, "New Conversation", <<>>, now)))
    /\ sentLog' = IF now \in DOMAIN sentLog THEN sentLog
                  ELSE [c \in DOMAIN sentLog \cup {now} |->
                            IF c = now THEN <<>> ELSE sentLog[c]]
    /\ Record("handleNewChat")
    /\ UNCHANGED <<requests, timers, now>>

\* WelcomeScreen handleQuickPrompt(state.quickPrompts[p]); MainChat shows the
\* WelcomeScreen while no conversation is active
handleQuickPrompt(p) ==
    /\ Running /\ LoggedIn /\ state.activeConversation = Null
    /\ Len(state.conversations) < MaxConversations
    /\ Len(timers) < MaxTimers
    /\ LET title == state.quickPrompts[p]
           newConversation ==
               NewConversation(now, title,
                   <<Message(now, "user", Content("prompt", title), now)>>, now)
       IN /\ Commit(ADD_CONVERSATION(state, newConversation))
          /\ timers' = Append(timers, [conversationId |-> newConversation.id,
                                       title |-> title])
    /\ Record("handleQuickPrompt")
    /\ UNCHANGED <<requests, now, sentLog>>

\* the simulated reply of handleQuickPrompt
QuickReply(title, t) ==
    Message(t + 1, "assistant", Content("I'll help you with", title), t)

\* the setTimeout callback of handleQuickPrompt, i-th of the pending ones
QuickPromptTimeout(i) ==
    /\ Running
    /\ Commit(ADD_MESSAGE(state, timers[i].conversationId,
                          QuickReply(timers[i].title, now)))
    /\ sentLog' = Logged(sentLog, timers[i].conversationId,
                         QuickReply(timers[i].title, now))
    /\ timers' = RemoveAt(timers, i)
    /\ Record("QuickPromptTimeout")
    /\ UNCHANGED <<requests, now>>

\* ConversationItem handleClick, of the i-th conversation of the sidebar
handleClick(i) ==
    /\ Running /\ LoggedIn /\ state.sidebarOpen
    /\ Commit(SET_ACTIVE_CONVERSATION(state, state.conversations[i]))
    /\ Record("handleClick")
    /\ UNCHANGED <<requests, timers, now, sentLog>>

\* ConversationItem handleDelete, of the i-th conversation of the sidebar
handleDelete(i) ==
    /\ Running /\ LoggedIn /\ state.sidebarOpen
    /\ Commit(DELETE_CONVERSATION(state, state.conversations[i].id))
    /\ sentLog' = EmptyLog
    /\ Record("handleDelete")
    /\ UNCHANGED <<requests, timers, now>>

\* SettingsModal handleClearAllConversations, confirmed
handleClearAllConversations ==
    /\ Running /\ LoggedIn
    /\ Commit(CLEAR_ALL_CONVERSATIONS(state))
    /\ sentLog' = EmptyLog
    /\ Record("handleClearAllConversations")
    /\ UNCHANGED <<requests, timers, now>>

\* new Date().toISOString() at millisecond t
ToISOString(t) == [kind |-> "string", ms |-> t]

\* the entry of the export document for conversation conv, as JSON.stringify
\* writes it
ExportedConversation(conv) ==
    [id |-> conv.id,
     title |-> conv.title,
     createdAt |-> DateToJSON(conv.createdAt),
     updatedAt |-> DateToJSON(conv.updatedAt),
     messageCount |-> Len(conv.messages),
     messages |-> [j \in DOMAIN conv.messages |->
                      [role |-> conv.messages[j].role,
                       content |-> conv.messages[j].content,
                       timestamp |-> DateToJSON(conv.messages[j].timestamp)]]]

\* an export document that carries the preferences and the catalogs too
ExportData_WholeState(s, t) ==
    [exportedAt |-> ToISOString(t),
     user |-> IF s.currentUser # Null THEN s.currentUser.username ELSE "Unknown",
     userRole |-> IF s.currentUser # Null THEN s.currentUser.role ELSE "Unknown",
     totalConversations |-> Len(s.conversations),
     conversations |-> [i \in DOMAIN s.conversations |->
                           ExportedConversation(s.conversations[i])],
     theme |-> s.theme,
     sidebarOpen |-> s.sidebarOpen,
     userRoles |-> s.userRoles,
     quickPrompts |-> s.quickPrompts]

\* exportData of handleExportClick and handleExportAllConversations, as
\* JSON.stringify(exportData, null, 2) writes it
ExportData(s, t) ==
    [exportedAt |-> ToISOString(t),
     user |-> IF s.currentUser # Null THEN s.currentUser.username ELSE "Unknown",
     userRole |-> IF s.currentUser # Null THEN s.currentUser.role ELSE "Unknown",
     totalConversations |-> Len(s.conversations),
     conversations |-> [i \in DOMAIN s.conversations |->
                           ExportedConversation(s.conversations[i])]]

\* `ireno-conversations-${new Date().toISOString().split('T')[0]}.json`
ExportFilename(t) ==
    [prefix |-> "ireno-conversations-", day |-> t \div 86400000, suffix |-> ".json"]

\* what an export hands to the user for state s at millisecond t
Export(s, t) ==
    IF Len(s.conversations) > 0
    THEN [kind |-> "download",
          filename |-> ExportFilename(t),
          document |-> ExportData(s, t),
          alert |-> "Conversations exported successfully"]
    ELSE [kind |-> "alert", alert |-> "No conversations to export"]

\* AppHeader handleExportClick: no dispatch, so no render of the provider and no
\* persistence effect
handleExportClick ==
    /\ Running /\ LoggedIn
    /\ exported' = Export(state, now)
    /\ Record("handleExportClick")
    /\ UNCHANGED <<state, localStorage, browser, phase, requests, timers, now,
                   sentLog, startupProbe, otherTab>>

\* SettingsModal handleExportAllConversations: the same document, built in a
\* try block in which nothing throws
handleExportAllConversations ==
    /\ Running /\ LoggedIn
    /\ exported' = Export(state, now)
    /\ Record("handleExportAllConversations")
    /\ UNCHANGED <<state, localStorage, browser, phase, requests, timers, now,
                   sentLog, startupProbe, otherTab>>

\* the guard of handleSubmit: a non-blank input and an active conversation
CanSubmit(s, inputValue) == Trim(inputValue) # "" /\ s.activeConversation # Null

\* handleSubmit of a ChatInput whose controls stay enabled while isTyping
handleSubmit_NotDisabled(inputValue) ==
    /\ Running /\ LoggedIn
    /\ state.activeConversation # Null
    /\ Len(state.activeConversation.messages) + 2 <= MaxMessages
    /\ CanSubmit(state, inputValue)
    /\ LET id == state.activeConversation.id
           userMessage == Message(now, "user", Content(Trim(inputValue), ""), now)
       IN /\ Commit(SET_TYPING(SET_TYPING(ADD_MESSAGE(state, id, userMessage),
                                          TRUE), TRUE))
          /\ sentLog' = Logged(sentLog, id, userMessage)
          /\ requests' = Append(requests,
                                [activeConversation |-> state.activeConversation])
    /\ Record("handleSubmit")
    /\ UNCHANGED <<timers, now>>

\* ChatInput handleSubmit, up to the first await of sendMessageToBackend.
\* MainChat shows ChatInput while a conversation is active; the textarea and
\* the send button are disabled while state.isTyping.  The request keeps the
\* state of the render it was submitted from (the closure of the handler).
handleSubmit(inputValue) ==
    /\ Running /\ LoggedIn /\ ~state.isTyping
    /\ state.activeConversation # Null
    /\ Len(state.activeConversation.messages) + 2 <= MaxMessages
    /\ CanSubmit(state, inputValue)
    /\ LET id == state.activeConversation.id
           userMessage == Message(now, "user", Content(Trim(inputValue), ""), now)
       IN /\ Commit(SET_TYPING(SET_TYPING(ADD_MESSAGE(state, id, userMessage),
                                          TRUE), TRUE))
          /\ sentLog' = Logged(sentLog, id, userMessage)
          /\ requests' = Append(requests,
                                [activeConversation |-> state.activeConversation])
    /\ Record("handleSubmit")
    /\ UNCHANGED <<timers, now>>

\* the message sendMessageToBackend adds when its request settles
ReplyMessage(outcome, t) ==
    IF outcome = "ok"
    THEN Message(t + 1, "assistant", Content("response", ""), t)
    ELSE Message(t + 1, "assistant", Content(FallbackText, ErrorMessage(outcome)), t)

\* sendMessageToBackend whose catch block adds no message
sendMessageToBackend_NoFallback(s, conversationId, outcome, t) ==
    IF outcome = "ok"
    THEN SET_TYPING(ADD_MESSAGE(s, conversationId, ReplyMessage(outcome, t)), FALSE)
    ELSE SET_TYPING(s, FALSE)

\* sendMessageToBackend without its finally block
sendMessageToBackend_NoFinally(s, conversationId, outcome, t) ==
    ADD_MESSAGE(s, conversationId, ReplyMessage(outcome, t))

\* the state sendMessageToBackend leaves: try or catch, then finally
sendMessageToBackend(s, conversationId, outcome, t) ==
    SET_TYPING(ADD_MESSAGE(s, conversationId, ReplyMessage(outcome, t)), FALSE)

\* ChatInput sendMessageToBackend, from the settling of fetch to its end, for
\* the i-th request in flight
RequestSettles(i, outcome) ==
    /\ Running
    /\ Commit(sendMessageToBackend(state, requests[i].activeConversation.id,
                                   outcome, now))
    /\ sentLog' = Logged(sentLog, requests[i].activeConversation.id,
                         ReplyMessage(outcome, now))
    /\ requests' = RemoveAt(requests, i)
    /\ Record("RequestSettles")
    /\ UNCHANGED <<timers, now>>

---------------------------------------------------------------------------
(* Specifications *)

Login == \E f \in FormData : handleLogin(f)
QuickPrompt == \E p \in 1..MaxPrompt : handleQuickPrompt(p)
QuickPromptFires == \E i \in DOMAIN timers : QuickPromptTimeout(i)
SelectConversation == \E i \in DOMAIN state.conversations : handleClick(i)
DeleteConversation == \E i \in DOMAIN state.conversations : handleDelete(i)
Submit == \E inputValue \in Inputs : handleSubmit(inputValue)
Settle == \E i \in DOMAIN requests : \E outcome \in Outcomes : RequestSettles(i, outcome)

Next ==
    \/ Hydrate \/ Mount \/ Unload \/ Tick
    \/ Login \/ handleLogout \/ handleThemeToggle \/ toggleSidebar
    \/ handleNewChat \/ QuickPrompt \/ QuickPromptFires
    \/ SelectConversation \/ DeleteConversation \/ handleClearAllConversations
    \/ Submit \/ Settle

\* one tab, from a first visit
Spec == Init /\ [][Next]_vars

\* persistence under every storage environment and every content of the state
\* key, with the handlers that change the size of the blob
NextStorage ==
    \/ Hydrate \/ Mount \/ Unload
    \/ Login \/ handleLogout
    \/ handleNewChat \/ QuickPrompt \/ QuickPromptFires \/ DeleteConversation

StorageSpec == InitAny /\ [][NextStorage]_vars

\* the same, in a browser whose free room changes during the session
NextSession == NextStorage \/ OtherDataChanges

SessionSpec == InitAny /\ [][NextSession]_vars

\* a session in which the user exports from the header menu and from the
\* settings dialog
NextExport ==
    \/ Hydrate \/ Mount \/ Unload \/ Tick
    \/ Login \/ handleLogout
    \/ handleNewChat \/ QuickPrompt \/ QuickPromptFires
    \/ DeleteConversation \/ Submit \/ Settle
    \/ handleExportClick \/ handleExportAllConversations

ExportSpec == Init /\ [][NextExport]_vars

\* a page that stays open, every chat request of which settles
NextLive ==
    \/ Hydrate \/ Mount \/ Tick
    \/ Login \/ handleLogout \/ handleThemeToggle \/ toggleSidebar
    \/ handleNewChat \/ QuickPrompt \/ QuickPromptFires
    \/ SelectConversation \/ DeleteConversation \/ handleClearAllConversations
    \/ Submit \/ Settle

LiveSpec == Init /\ [][NextLive]_vars /\ WF_vars(Settle)

\* two tabs of the origin, in which conversations are created and deleted
NextTabs ==
    \/ Hydrate \/ Mount \/ Unload \/ Tick \/ SwitchTab
    \/ Login \/ handleLogout
    \/ handleNewChat \/ QuickPrompt \/ QuickPromptFires \/ DeleteConversation

TabsSpec == Init /\ [][NextTabs]_vars

---------------------------------------------------------------------------
(* Claims *)

ConversationIds(s) == {s.conversations[i].id : i \in DOMAIN s.conversations}

\* C1: for every id c created with an empty message list and not since touched
\* by DeleteConversation, ClearAllConversations or LogoutUser, a collection
\* entry for c holds exactly the messages passed to AddMessage(c, .), in call
\* order, and so does the active copy whenever its id is c.
C1_AddMessageAppendOnly ==
    \A c \in DOMAIN sentLog :
        /\ \E i \in DOMAIN state.conversations :
              /\ state.conversations[i].id = c
              /\ state.conversations[i].messages = sentLog[c]
        /\ ActiveHasId(state, c) => state.activeConversation.messages = sentLog[c]

\* C2: the active conversation is null or has the id of an entry of the
\* collection, in every state of a page, hydrated ones included.
C2_ActiveInCollection ==
    \/ state.activeConversation = Null
    \/ state.activeConversation.id \in ConversationIds(state)

\* a hydrated state whose active conversation is the second entry
C2_Witness ==
    /\ phase = "hydrated"
    /\ Len(state.conversations) = 2
    /\ state.activeConversation # Null
    /\ state.activeConversation.id = state.conversations[2].id
    /\ state.activeConversation.id # state.conversations[1].id

\* the indices of the entries DeleteConversation(id) keeps
Kept(s, id) == {k \in DOMAIN s.conversations : s.conversations[k].id # id}

\* t's collection is s's without the entries of that id, the others in order
DeleteRemoves(s, t, id) ==
    /\ id \notin ConversationIds(t)
    /\ Len(t.conversations) = Cardinality(Kept(s, id))
    /\ \A k \in Kept(s, id) :
          t.conversations[Cardinality({j \in Kept(s, id) : j <= k})] = s.conversations[k]

\* C3 as stated: after DeleteConversation(id) the collection has no entry of
\* that id, the others are kept in order, and the active conversation is null
\* if and only if it had that id before.
C3_DeleteAsStated ==
    [][\A i \in DOMAIN state.conversations :
          handleDelete(i) =>
              LET id == state.conversations[i].id IN
              /\ DeleteRemoves(state, state', id)
              /\ (state'.activeConversation = Null) <=> ActiveHasId(state, id)]_vars

\* C3 amended: ... and the active conversation is null afterwards if and only
\* if it was null or had that id before; otherwise it is unchanged.
C3_Delete ==
    [][\A i \in DOMAIN state.conversations :
          handleDelete(i) =>
              LET id == state.conversations[i].id IN
              /\ DeleteRemoves(state, state', id)
              /\ (state'.activeConversation = Null)
                    <=> (state.activeConversation = Null \/ ActiveHasId(state, id))
              /\ state'.activeConversation # Null
                    => state'.activeConversation = state.activeConversation]_vars

\* a conversation was deleted while another one was active, and that one is
\* still active and the only entry
C3_Witness ==
    /\ lastAction = "handleDelete"
    /\ Len(state.conversations) = 1
    /\ state.activeConversation # Null
    /\ state.activeConversation.id = state.conversations[1].id

\* C7: no two entries of the collection have the same id.
C7_UniqueIds ==
    \A i, j \in DOMAIN state.conversations :
        i # j => state.conversations[i].id # state.conversations[j].id

---------------------------------------------------------------------------
(* Claims about persistence *)

\* a step that ends with a save cycle: Mount, or a handler and its effect
SaveStep == phase' = "running" /\ now' = now /\ browser' = browser

\* the first setItem of the save cycle for state s throws
WriteFails(ls, s) ==
    isLocalStorageAvailable(ls) /\ ~Fits(ls, STORAGE_KEY, JSONstringify(s))

\* C4: when the write of the blob fails with a QuotaExceededError, the save
\* cycle removes 'ireno-theme' and writes the same blob once more, so that the
\* store holds the blob of the current state if it fits after the removal; a
\* failure of another kind causes no removal and no retry.
C4_QuotaRetry ==
    [][SaveStep /\ WriteFails(localStorage, state') =>
          IF browser.quotaErrorName = "QuotaExceededError"
          THEN /\ localStorage'[LEGACY_KEY] = Absent
               /\ Size(JSONstringify(state')) <= browser.quota
                     => localStorage'[STORAGE_KEY] = JSONstringify(state')
          ELSE localStorage' = localStorage]_vars

\* C5: if the state key holds a string that is not JSON text, hydration
\* returns the default state and the key no longer holds that string.
C5_NonJSONCleared ==
    [][Hydrate /\ isLocalStorageAvailable(localStorage)
              /\ localStorage[STORAGE_KEY].kind = "text" =>
          /\ state' = initialState
          /\ localStorage'[STORAGE_KEY] # localStorage[STORAGE_KEY]]_vars

\* C6: if the state key holds JSON text of a value that is not a plain object
\* (a number, string, boolean, null or an array), hydration returns the
\* default state and removes the key.
C6_NonObjectCleared ==
    [][Hydrate /\ isLocalStorageAvailable(localStorage)
              /\ localStorage[STORAGE_KEY].kind = "json"
              /\ localStorage[STORAGE_KEY].value.type # "object" =>
          /\ state' = initialState
          /\ localStorage'[STORAGE_KEY] = Absent]_vars

\* save then reload: the state a page hydrates from the blob written for s
RoundTrip(s) ==
    initializeStateFromStorage(
        [k \in Keys |-> IF k = STORAGE_KEY THEN JSONstringify(s) ELSE Absent],
        initialState).state

\* C8 as stated: save followed by reload yields a state equal to S in every
\* field, userRoles and quickPrompts being the defaults'.
C8_RoundTripAsStated ==
    LET r == RoundTrip(state) IN
    /\ DOMAIN r = DOMAIN state
    /\ \A k \in DOMAIN state \ {"userRoles", "quickPrompts"} : r[k] = state[k]
    /\ r.userRoles = initialState.userRoles
    /\ r.quickPrompts = initialState.quickPrompts

\* the ISO string of the instant of a timestamp, Date or string
ISOString(ts) == [kind |-> "string", ms |-> ts.ms]

SameMessage(a, b) ==
    /\ DOMAIN a = DOMAIN b
    /\ a.id = b.id /\ a.role = b.role /\ a.content = b.content
    /\ b.timestamp = ISOString(a.timestamp)

SameConversation(a, b) ==
    /\ DOMAIN a = DOMAIN b
    /\ a.id = b.id /\ a.title = b.title /\ a.pinned = b.pinned
    /\ b.createdAt = ISOString(a.createdAt)
    /\ b.updatedAt = ISOString(a.updatedAt)
    /\ Len(a.messages) = Len(b.messages)
    /\ \A i \in DOMAIN a.messages : SameMessage(a.messages[i], b.messages[i])

\* C8 amended: save followed by reload yields a state equal to S in every
\* field, userRoles and quickPrompts being the defaults', except that every
\* Date among createdAt, updatedAt and the messages' timestamps comes back as
\* the ISO string of the same instant.
C8_RoundTrip ==
    LET r == RoundTrip(state) IN
    /\ DOMAIN r = DOMAIN state
    /\ \A k \in DOMAIN state \ {"userRoles", "quickPrompts", "conversations",
                                "activeConversation"} : r[k] = state[k]
    /\ r.userRoles = initialState.userRoles
    /\ r.quickPrompts = initialState.quickPrompts
    /\ Len(r.conversations) = Len(state.conversations)
    /\ \A i \in DOMAIN state.conversations :
          SameConversation(state.conversations[i], r.conversations[i])
    /\ IF state.activeConversation = Null THEN r.activeConversation = Null
       ELSE /\ r.activeConversation # Null
            /\ SameConversation(state.activeConversation, r.activeConversation)

\* a logged-in state with a dark theme and a conversation that holds a message
\* stamped with a Date
C8_Witness ==
    /\ phase = "running"
    /\ state.currentUser # Null /\ state.theme = "dark"
    /\ \E i \in DOMAIN state.conversations :
          \E j \in DOMAIN state.conversations[i].messages :
              state.conversations[i].messages[j].timestamp.kind = "Date"

---------------------------------------------------------------------------
(* Claims about the chat request *)

Failures == Outcomes \ {"ok"}

IsFallback(m) == m.role = "assistant" /\ m.content.text = FallbackText

\* C9 as stated: when a chat request fails, one fallback message is appended
\* to the conversation the request was submitted from.
C9_FallbackAsStated ==
    [][\A i \in DOMAIN requests : \A outcome \in Failures :
          RequestSettles(i, outcome) =>
              \E j \in DOMAIN state.conversations :
                  /\ state.conversations[j].id = requests[i].activeConversation.id
                  /\ Len(state'.conversations) = Len(state.conversations)
                  /\ Len(state'.conversations[j].messages)
                        = Len(state.conversations[j].messages) + 1
                  /\ IsFallback(state'.conversations[j].messages[
                                    Len(state'.conversations[j].messages)])]_vars

\* C9 amended: when a chat request fails, exactly one fallback message is
\* appended to every entry of the collection that has the id of the
\* conversation the request was submitted from (to none when that conversation
\* was removed in the meantime), every other entry is unchanged, and the
\* handler cannot throw: the state its closure keeps has an active conversation.
C9_Fallback ==
    /\ [][\A i \in DOMAIN requests : \A outcome \in Failures :
            RequestSettles(i, outcome) =>
                /\ Len(state'.conversations) = Len(state.conversations)
                /\ \A j \in DOMAIN state.conversations :
                      LET before == state.conversations[j]
                          after == state'.conversations[j]
                      IN IF before.id = requests[i].activeConversation.id
                         THEN /\ Len(after.messages) = Len(before.messages) + 1
                              /\ SubSeq(after.messages, 1, Len(before.messages))
                                    = before.messages
                              /\ IsFallback(after.messages[Len(after.messages)])
                              /\ [after EXCEPT !.messages = before.messages] = before
                         ELSE after = before]_vars
    /\ [](\A i \in DOMAIN requests : requests[i].activeConversation # Null)

\* a request has just failed and its conversation ends with the fallback message
C9_Witness ==
    /\ lastAction = "RequestSettles"
    /\ \E j \in DOMAIN state.conversations :
          /\ Len(state.conversations[j].messages) = 2
          /\ state.conversations[j].messages[1].role = "user"
          /\ IsFallback(state.conversations[j].messages[2])

\* C10: a chat request that settles, with a response or a failure, leaves
\* isTyping false; if every request settles, isTyping is eventually false
\* after every submission.
C10_TypingCleared ==
    /\ [][\A i \in DOMAIN requests : \A outcome \in Outcomes :
            RequestSettles(i, outcome) => ~state'.isTyping]_vars
    /\ (requests # <<>>) ~> ~state.isTyping

\* a request has just settled: none is in flight and isTyping is false
C10_Witness ==
    /\ lastAction = "RequestSettles"
    /\ requests = <<>>
    /\ ~state.isTyping
    /\ \E j \in DOMAIN state.conversations : Len(state.conversations[j].messages) = 2

\* C11: at most one chat request is outstanding at any time; while one is
\* outstanding isTyping is true, and no step starts a further request, whatever
\* conversation is active.
C11_SingleOutstanding ==
    /\ [](Len(requests) <= 1)
    /\ []((requests # <<>>) => state.isTyping)
    /\ [][requests # <<>> => Len(requests') <= Len(requests)]_vars

\* a request is outstanding while another conversation, which could take a
\* message, is the active one
C11_Witness ==
    /\ Len(requests) = 1
    /\ state.isTyping
    /\ state.activeConversation # Null
    /\ state.activeConversation.id # requests[1].activeConversation.id
    /\ state.activeConversation.messages = <<>>

C13_DisabledForSession ==
    [][startupProbe = "failed" =>
          localStorage'[STORAGE_KEY] = localStorage[STORAGE_KEY]]_vars

\* default states handed to the merge: the one of the page and another one
DefaultStates ==
    {initialState,
     [initialState EXCEPT !.userRoles = <<"viewer">>, !.quickPrompts = <<"Help">>]}

\* the values JSON.parse can hand to the merge: objects and arrays
Mergeable(stored) == stored.kind = "json" /\ stored.value.type \in {"object", "array"}

\* C14: for every default state D and every persisted object P, including one
\* whose userRoles or quickPrompts were tampered with, the merge and therefore
\* hydration yield a state whose userRoles and quickPrompts are exactly D's.
C14_CatalogsRestored ==
    /\ [](\A D \in DefaultStates :
            \A stored \in StoredInputs \cup {localStorage[STORAGE_KEY]} :
                Mergeable(stored) =>
                    LET merged == hydratedState(D, JSONparse(stored)) IN
                    /\ merged.userRoles = D.userRoles
                    /\ merged.quickPrompts = D.quickPrompts)
    /\ [][Hydrate => /\ state'.userRoles = initialState.userRoles
                     /\ state'.quickPrompts = initialState.quickPrompts]_vars

\* the page has hydrated from an object whose catalogs were replaced: it took
\* the object's theme and not its catalogs
C14_Witness ==
    /\ phase = "hydrated"
    /\ startupProbe = "ok"
    /\ localStorage[STORAGE_KEY] \in TamperedInputs
    /\ "userRoles" \in DOMAIN localStorage[STORAGE_KEY].value.fields
    /\ localStorage[STORAGE_KEY].value.fields.userRoles = <<"admin">>
    /\ state.theme = "dark"
    /\ state.userRoles = userRoles

\* C15: hydration returns the default state unchanged, and neither removes nor
\* writes anything in the store, both when the availability probe fails and
\* when the store holds no value under the state key.
C15_DefaultUntouched ==
    [][Hydrate /\ (\/ ~isLocalStorageAvailable(localStorage)
                   \/ localStorage[STORAGE_KEY] = Absent) =>
          /\ state' = initialState
          /\ localStorage' = localStorage]_vars

\* the page has hydrated with a failing probe while the state key held a
\* value: it has the default state and the value is still there
C15_Witness ==
    /\ phase = "hydrated"
    /\ startupProbe = "failed"
    /\ state = initialState
    /\ localStorage[STORAGE_KEY] # Absent

---------------------------------------------------------------------------
(* Claims about the reducer *)

\* the ids handlers can produce, and one that no conversation has
DeleteIds == 0..(MaxTime + 1)

\* C16: DeleteConversation is idempotent: in every state and for every id,
\* deleting twice gives the state that deleting once gives, and deleting an id
\* that is neither in the collection nor the active conversation's leaves the
\* state as it is.
C16_DeleteIdempotent ==
    \A id \in DeleteIds :
        LET once == DELETE_CONVERSATION(state, id) IN
        /\ DELETE_CONVERSATION(once, id) = once
        /\ (id \notin ConversationIds(state) /\ ~ActiveHasId(state, id))
              => once = state

\* a conversation has just been deleted while another one stays active: its id
\* is now in neither place
C16_Witness ==
    /\ lastAction = "handleDelete"
    /\ state.activeConversation # Null
    /\ Len(state.conversations) = 1
    /\ \E id \in DeleteIds : id \notin ConversationIds(state)

\* the conversation handleNewChat builds
NewChatConversation == NewConversation(now, "New Conversation", <<>>, now)

\* C17: AddConversation(conv) from any state yields a collection whose first
\* entry is conv, followed by the previous entries in their order (one entry
\* more), and makes conv the active conversation.
C17_AddConversationPrepends ==
    /\ [](LET after == ADD_CONVERSATION(state, NewChatConversation) IN
          /\ Len(after.conversations) = Len(state.conversations) + 1
          /\ Head(after.conversations) = NewChatConversation
          /\ Tail(after.conversations) = state.conversations
          /\ after.activeConversation = NewChatConversation)
    /\ [][handleNewChat \/ QuickPrompt =>
             /\ Len(state'.conversations) = Len(state.conversations) + 1
             /\ Tail(state'.conversations) = state.conversations
             /\ Head(state'.conversations).id = now
             /\ state'.activeConversation = Head(state'.conversations)]_vars

\* two conversations, the newer one first and active
C17_Witness ==
    /\ Len(state.conversations) = 2
    /\ state.conversations[1].createdAt.ms > state.conversations[2].createdAt.ms
    /\ state.conversations[1].createdAt.kind = "Date"
    /\ state.activeConversation = state.conversations[1]

\* currentUser, conversations and activeConversation cleared, the rest kept
LoggedOut(before, after) ==
    /\ DOMAIN after = DOMAIN before
    /\ after.currentUser = Null
    /\ after.conversations = <<>>
    /\ after.activeConversation = Null
    /\ \A k \in {"theme", "sidebarOpen", "isTyping", "userRoles", "quickPrompts"} :
          after[k] = before[k]

\* C18: LogoutUser from any state yields currentUser = null, conversations = []
\* and activeConversation = null, and leaves theme, sidebarOpen, isTyping,
\* userRoles and quickPrompts unchanged.
C18_Logout ==
    /\ [](LoggedOut(state, LOGOUT_USER(state)))
    /\ [][handleLogout => LoggedOut(state, state')]_vars

\* the user has just logged out of a dark page with a request outstanding
C18_Witness ==
    /\ lastAction = "handleLogout"
    /\ state.theme = "dark"
    /\ state.isTyping
    /\ ~state.sidebarOpen

---------------------------------------------------------------------------
(* Claims about the export *)

ExportStep == handleExportClick \/ handleExportAllConversations

\* entry e of the document lists conversation c: its title, its timestamps,
\* its messages in order and their number
Lists(e, c) ==
    /\ e.id = c.id /\ e.title = c.title
    /\ e.createdAt = ISOString(c.createdAt)
    /\ e.updatedAt = ISOString(c.updatedAt)
    /\ e.messageCount = Len(c.messages)
    /\ Len(e.messages) = Len(c.messages)
    /\ \A j \in DOMAIN c.messages :
          /\ e.messages[j].role = c.messages[j].role
          /\ e.messages[j].content = c.messages[j].content
          /\ e.messages[j].timestamp = ISOString(c.messages[j].timestamp)

---------------------------------------------------------------------------
(* Claims about the messages of a conversation *)

\* the messages of the conversation with this id: those of the first entry
\* that has it, as conversations.find(conv => conv.id === id) gives it
MessagesOf(s, id) ==
    LET i == CHOOSE i \in DOMAIN s.conversations :
                 /\ s.conversations[i].id = id
                 /\ \A j \in 1..(i - 1) : s.conversations[j].id # id
    IN s.conversations[i].messages

IsPrefix(a, b) == Len(a) <= Len(b) /\ SubSeq(b, 1, Len(a)) = a

Removal == DeleteConversation \/ handleClearAllConversations \/ handleLogout

---------------------------------------------------------------------------
(* Claims about replies *)

\* the entries of the collection that a step changes
Changed == {j \in DOMAIN state.conversations :
               j \notin DOMAIN state'.conversations
               \/ state'.conversations[j] # state.conversations[j]}

\* the step appends message m to the conversation that was started under id,
\* if the collection still has it, and touches no other conversation, the
\* active one included
LandsIn(id, m) ==
    /\ Len(state'.conversations) = Len(state.conversations)
    /\ \A j \in Changed :
          /\ state.conversations[j].id = id
          /\ state'.conversations[j] =
                [state.conversations[j] EXCEPT !.messages = Append(@, m)]
    /\ Cardinality(Changed) <= 1
    /\ id \in ConversationIds(state) => Changed # {}
    /\ state'.activeConversation # state.activeConversation
          => state.activeConversation # Null /\ state.activeConversation.id = id

\* C21: the reply to a chat request and the simulated reply to a quick-start
\* prompt are appended to the conversation the request or prompt came from and
\* to no other conversation, whatever the active conversation is when the
\* reply arrives.
C21_ReplyToOrigin ==
    [][/\ \A i \in DOMAIN requests : \A outcome \in Outcomes :
             RequestSettles(i, outcome)
                 => LandsIn(requests[i].activeConversation.id,
                            ReplyMessage(outcome, now))
       /\ \A i \in DOMAIN timers :
             QuickPromptTimeout(i)
                 => LandsIn(timers[i].conversationId,
                            QuickReply(timers[i].title, now))]_vars

---------------------------------------------------------------------------
(* Claims about the typing flag *)

\* C22: in every state of a page, the hydrated state after a reload included,
\* isTyping is true only while a chat request of the current page is
\* outstanding, so the chat input is never disabled with no request in flight.
C22_TypingOnlyWhilePending ==
    (phase \in {"hydrated", "running"} /\ state.isTyping) => requests # <<>>

---------------------------------------------------------------------------
(* Claims about a reload after a logout *)

\* C23: the state hydrated by a reload that follows LogoutUser has no current
\* user and no conversation: a reload after a logout restores no session.
C23_NoSessionAfterLogout ==
    lastAction = "handleLogout, Unload, Hydrate"
        => state.currentUser = Null /\ state.conversations = <<>>

---------------------------------------------------------------------------
(* Claims about the save cycle *)

WriteSucceeds(ls, s) ==
    isLocalStorageAvailable(ls) /\ Fits(ls, STORAGE_KEY, JSONstringify(s))

\* the stored value is an object with every field of state s: the session, the
\* preferences, every conversation with all its messages, and both catalogs
HoldsWhole(stored, s) ==
    /\ stored.kind = "json" /\ stored.value.type = "object"
    /\ LET f == stored.value.fields IN
       /\ DOMAIN f = DOMAIN s
       /\ f.userRoles = s.userRoles
       /\ f.quickPrompts = s.quickPrompts
       /\ \A k \in DOMAIN s \ {"conversations", "activeConversation"} : f[k] = s[k]
       /\ Len(f.conversations) = Len(s.conversations)
       /\ \A i \in DOMAIN s.conversations :
             SameConversation(s.conversations[i], f.conversations[i])
       /\ IF s.activeConversation = Null THEN f.activeConversation = Null
          ELSE SameConversation(s.activeConversation, f.activeConversation)

---------------------------------------------------------------------------
(* Claims about two tabs *)

\* a step of the tab in front that ends with its save cycle
TabSaves == SaveStep /\ otherTab' = otherTab

\* the conversations stored under the state key
StoredConversations(ls) ==
    {ls[STORAGE_KEY].value.fields.conversations[i] :
        i \in DOMAIN ls[STORAGE_KEY].value.fields.conversations}

\* C26: with two tabs on one store, every save replaces the whole blob by the
\* encoding of the state of the tab that saves, with nothing of the other
\* tab's state mixed in, so that a conversation only the other tab has is not
\* in it; and nothing but a save changes the blob, so that when both tabs have
\* stopped the blob is the state of the tab that wrote last.
C26_LastWriterWins ==
    [][/\ TabSaves =>
             /\ localStorage'[STORAGE_KEY] = JSONstringify(state')
             /\ \A i \in DOMAIN otherTab.state.conversations :
                   LET c == otherTab.state.conversations[i] IN
                   c.id \notin ConversationIds(state')
                       => \A d \in StoredConversations(localStorage') : d.id # c.id
       /\ ~TabSaves => localStorage' = localStorage]_vars

\* both tabs run, each has a conversation the other does not have, and the
\* store holds the state of the tab in front, which saved last
C26_Witness ==
    /\ phase = "running" /\ otherTab.phase = "running"
    /\ ConversationIds(otherTab.state) \ ConversationIds(state) # {}
    /\ ConversationIds(state) \ ConversationIds(otherTab.state) # {}
    /\ localStorage[STORAGE_KEY] = JSONstringify(state)
    /\ localStorage[STORAGE_KEY] # JSONstringify(otherTab.state)

---------------------------------------------------------------------------
(* Claims about UPDATE_CONVERSATION and ADD_MESSAGE *)

\* entry b is the shallow merge of entry a with the updates: the fields of the
\* updates with their values, every other field of a as it was
MergedWith(a, updates, b) ==
    /\ DOMAIN b = DOMAIN a \cup DOMAIN updates
    /\ \A k \in DOMAIN updates : b[k] = updates[k]
    /\ \A k \in DOMAIN a \ DOMAIN updates : b[k] = a[k]

\* C27: UpdateConversation(id, fields) replaces every entry of the collection
\* whose id is id by its shallow merge with fields, leaves the other entries,
\* their order, the activeConversation copy (also when its id is id) and every
\* other field of the state unchanged, and leaves the collection unchanged
\* when no entry has that id.
C27_UpdateConversation ==
    \A id \in DeleteIds : \A updates \in UpdateInputs :
        LET after == UPDATE_CONVERSATION(state, id, updates) IN
        /\ DOMAIN after = DOMAIN state
        /\ \A k \in DOMAIN state \ {"conversations"} : after[k] = state[k]
        /\ after.activeConversation = state.activeConversation
        /\ Len(after.conversations) = Len(state.conversations)
        /\ \A i \in DOMAIN state.conversations :
              IF state.conversations[i].id = id
              THEN MergedWith(state.conversations[i], updates, after.conversations[i])
              ELSE after.conversations[i] = state.conversations[i]
        /\ id \notin ConversationIds(state) => after.conversations = state.conversations

\* the active conversation has a message and another conversation exists:
\* renaming it changes its entry in the collection, not the active copy, and
\* not the other entry
C27_Witness ==
    /\ state.activeConversation # Null
    /\ Len(state.activeConversation.messages) >= 1
    /\ Len(state.conversations) = 2
    /\ state.conversations[1].id # state.conversations[2].id
    /\ LET id == state.activeConversation.id
           after == UPDATE_CONVERSATION(state, id, [title |-> "Renamed"]) IN
       /\ after.activeConversation.title # "Renamed"
       /\ \E i, j \in 1..2 :
             /\ after.conversations[i].title = "Renamed"
             /\ after.conversations[i].id = id
             /\ after.conversations[j] = state.conversations[j]
             /\ i # j

\* the replies a request or a timer can deliver now
Replies ==
    {ReplyMessage(outcome, now) : outcome \in Outcomes}
        \cup {QuickReply(state.quickPrompts[p], now) : p \in 1..MaxPrompt}

\* C28: AddMessage(id, m) with an id that no entry has leaves the collection
\* (and the whole state) as it is; so a reply that arrives after its
\* conversation was deleted, cleared or dropped by a logout changes no entry,
\* and no reply ever adds an entry to the collection or brings an id back.
C28_NoEntryFromReply ==
    /\ [](\A id \in DeleteIds : \A m \in Replies :
              id \notin ConversationIds(state)
                  => /\ ADD_MESSAGE(state, id, m).conversations = state.conversations
                     /\ ~ActiveHasId(state, id) => ADD_MESSAGE(state, id, m) = state)
    /\ [][/\ \A i \in DOMAIN requests : \A outcome \in Outcomes :
                RequestSettles(i, outcome) =>
                   /\ Len(state'.conversations) = Len(state.conversations)
                   /\ ConversationIds(state') = ConversationIds(state)
                   /\ requests[i].activeConversation.id \notin ConversationIds(state)
                         => state'.conversations = state.conversations
          /\ \A i \in DOMAIN timers :
                QuickPromptTimeout(i) =>
                   /\ Len(state'.conversations) = Len(state.conversations)
                   /\ ConversationIds(state') = ConversationIds(state)
                   /\ timers[i].conversationId \notin ConversationIds(state)
                         => state' = state]_vars

\* the reply to a request has arrived after the only conversation was removed:
\* the collection is still empty
C28_Witness ==
    /\ lastAction = "RequestSettles"
    /\ state.conversations = <<>>
    /\ requests = <<>>
    /\ ~state.isTyping

---------------------------------------------------------------------------
(* Claims about the merge of hydration *)

Catalogs == {"userRoles", "quickPrompts"}

\* merged has the fields of D and of P, and outside the catalogs P's value
\* where P has the field and D's where it does not
PersistedOverDefault(D, P, merged) ==
    /\ DOMAIN merged = DOMAIN D \cup DOMAIN P
    /\ \A k \in DOMAIN merged \ Catalogs :
          merged[k] = IF k \in DOMAIN P THEN P[k] ELSE D[k]

\* C29: for every default state D and every persisted object P the merged
\* state has, for every field other than userRoles and quickPrompts, P's value
\* if P has the field (also when D does not know the field) and D's value
\* otherwise; and so has the state of every page that hydrates from a stored
\* object.
C29_PersistedOverDefault ==
    /\ [](\A D \in DefaultStates :
            \A stored \in StoredInputs \cup {localStorage[STORAGE_KEY]} :
                Mergeable(stored) =>
                    PersistedOverDefault(D, SpreadFields(JSONparse(stored)),
                                         hydratedState(D, JSONparse(stored))))
    /\ [][(Hydrate /\ startupProbe' = "ok" /\ Mergeable(localStorage[STORAGE_KEY]))
             => PersistedOverDefault(initialState,
                                     SpreadFields(JSONparse(localStorage[STORAGE_KEY])),
                                     state')]_vars

\* the page has hydrated from an object with a theme and a field the default
\* state does not have: it has both, and the default value of every field the
\* object lacks
C29_Witness ==
    /\ phase = "hydrated"
    /\ startupProbe = "ok"
    /\ "fontSize" \in DOMAIN state
    /\ state.fontSize = "large"
    /\ state.theme = "dark" /\ initialState.theme = "light"
    /\ state.sidebarOpen = initialState.sidebarOpen
    /\ state.conversations = <<>>

---------------------------------------------------------------------------
(* Claims about the one-field cases of the reducer *)

\* after differs from before in field k at most, where it has value v
OnlyField(before, after, k, v) ==
    /\ DOMAIN after = DOMAIN before
    /\ after[k] = v
    /\ \A other \in DOMAIN before \ {k} : after[other] = before[other]

\* C30: SetUser, SetTheme, ToggleSidebar and SetTyping each change only their
\* own field (currentUser, theme, sidebarOpen, isTyping) and leave every other
\* field of the state unchanged; so do the login, the theme switch and the
\* sidebar button, which dispatch nothing else.
C30_OneFieldCases ==
    /\ [](/\ \A f \in FormData :
                OnlyField(state, SET_USER(state, LoginUser(state, f)),
                          "currentUser", LoginUser(state, f))
          /\ \A theme \in {"light", "dark"} :
                OnlyField(state, SET_THEME(state, theme), "theme", theme)
          /\ OnlyField(state, TOGGLE_SIDEBAR(state), "sidebarOpen", ~state.sidebarOpen)
          /\ \A isTyping \in BOOLEAN :
                OnlyField(state, SET_TYPING(state, isTyping), "isTyping", isTyping))
    /\ [][/\ \A f \in FormData :
                handleLogin(f) =>
                    OnlyField(state, state', "currentUser", LoginUser(state, f))
          /\ handleThemeToggle =>
                OnlyField(state, state', "theme",
                          IF state.theme = "light" THEN "dark" ELSE "light")
          /\ toggleSidebar =>
                OnlyField(state, state', "sidebarOpen", ~state.sidebarOpen)]_vars

\* a user is logged in, the theme is dark, the sidebar is closed and a request
\* is pending, over two conversations with a message: each of the four cases
\* has acted, and each finds fields of every kind to leave alone
C30_Witness ==
    /\ state.currentUser # Null
    /\ state.theme = "dark"
    /\ ~state.sidebarOpen
    /\ state.isTyping /\ requests # <<>>
    /\ Len(state.conversations) = 2
    /\ state.activeConversation # Null
    /\ Len(state.activeConversation.messages) >= 1

====
